---- MODULE Spec2Model ----
(***************************************************************************)
(* Session orchestration core of pyvisca-gui (src/pyvisca_gui/main.py):    *)
(* the ViscaGUI object shared by the UI-event thread (button callbacks and *)
(* key_handler) and the background thread status_update_loop.              *)
(*                                                                         *)
(* Time.  The unit is 0.05 s, in which the program's three periods are     *)
(* whole numbers: movement_timeout 0.15 s = 3, the loop's sleep 0.1 s = 2, *)
(* status_check_interval 0.5 s = 10.  The program only ever subtracts two  *)
(* readings of time.time(), so every stored reading is kept as its offset  *)
(* from the present: 0 is now, -k is k units ago, and time passing (Tick)  *)
(* moves each stored reading further into the past.  A reading older than  *)
(* every period it is compared with stays at that horizon.  Time advances  *)
(* in steps of the loop's sleep, so events fall on a grid of 0.1 s.        *)
(*                                                                         *)
(* Threads.  A device call (a method of the PTZ object that talks to the   *)
(* camera) is a blocking round trip: the calling thread sits in it while   *)
(* the other thread runs, so each call is split into the step that sends   *)
(* it and the step that handles its return or its exception.  Everything   *)
(* between two device calls of one thread is one step.                     *)
(*                                                                         *)
(* Environment.  The user and the transport follow one of the Profiles,    *)
(* chosen at the start: which buttons and keys are used and how the link   *)
(* fails.  The program is the same under every profile.                    *)
(*                                                                         *)
(* Output.  status_message, the activity log and _cached_status are        *)
(* written and never read back by the orchestration code (only the display *)
(* reads them), so a step's writes to them are kept as that step's output, *)
(* `out`, and not accumulated.                                             *)
(***************************************************************************)
EXTENDS Integers, Sequences, FiniteSets, TLC

\* ------------------------------------------------------------------ bounds
\* The longest time (in units) that the loop spends between reading `now` and the
\* last use of that reading: the transport's timeout bounds each device call.
MaxStale == 2
\* How far outside its range a speed stored in the configuration file lies.
StoredExcess == 3
\* how many entries a session hands to add_log
MaxArrivals == 102
\* how many messages the camera sends in a session
MaxReceived == 11

\* --------------------------------------------------------- program constants
\* self.movement_timeout = 0.15
movement_timeout == 3
\* self.status_check_interval = 0.5
status_check_interval == 10
\* time.sleep(0.1) at the end of each iteration of status_update_loop
LoopSleep == 2
\* time.time(), as an offset from the present
Now == 0
\* self.pan_speed = 5 (and tilt_speed, zoom_speed, focus_speed)
DefaultSpeedValue == 5
\* min(24, ...) in increase_pan_speed and increase_tilt_speed
MaxPanTilt == 24
\* min(7, ...) in increase_zoom_speed and increase_focus_speed
MaxZoomFocus == 7
\* add_log keeps the last 100 entries
LogCapacity == 100
\* self.max_messages
max_messages == 10

\* ------------------------------------------------------------------- state
VARIABLES
    camera,              \* self.camera: "None", or the state of the PTZ handle held
    current_movement,    \* self.current_movement
    current_zoom,        \* self.current_zoom
    current_focus,       \* self.current_focus
    last_movement_time,  \* self.last_movement_time
    last_status_check,   \* self.last_status_check
    speed,               \* self.pan_speed, tilt_speed, zoom_speed, focus_speed
    user,                \* the profile the environment follows
    ui,                  \* where the UI-event thread is (tries: the connection
                         \* attempts key_handler has made before its dispatch)
    bg,                  \* where status_update_loop is
    out,                 \* the last step's writes to status_message, to the log
                         \* and to self._cached_status
    lastStart,           \* history: per axis, when its last start command returned
    obs,                 \* history: the connection operation of the last step
    cmd,                 \* history: the command method that ended in the last step
    adj,                 \* history: the speed adjustment asked for in the last step
    replies,             \* history: the replies to the last step's status queries
    lastPoll,            \* history: when get_camera_status was last called (the
                         \* construction, before its first call)
    wd,                  \* history: what check_movement_timeout did in the last step
    log_messages,        \* self.log_messages: its entries, each by its arrival number
    incoming_messages,   \* self.incoming_messages: its entries, by arrival number
    writers,             \* per thread, where it is in add_log or in
                         \* check_incoming_messages, and the slice it holds
    arrivals,            \* history: the entries appended so far to each list
    unclosed,            \* history: a handle that self.camera held earlier, and
                         \* that no statement closed, is still open
    objects,             \* the dicts get_camera_status returned, by identity:
                         \* the value of each that is still referred to
    cached_status,       \* self._cached_status: None, or the identity of a dict
    status,              \* status_update_loop's local `status`, from its
                         \* assignment to the publication
    connection_string,   \* self.connection_string
    device,              \* history: while a stop call of the watchdog is under
                         \* way, the last command the camera was sent for that
                         \* stop's axis, the stop included; else "idle"
    running,             \* self.running
    process              \* Dear PyGui, run() and the status thread: whether
                         \* is_dearpygui_running(), where run() is, whether the
                         \* thread still iterates, and how the shutdown began

\* the two lists and the threads' positions in the methods that write them.
\* SpecQueues follows the lists' contents; Spec and SpecSettings keep, in out,
\* the entries a step appends.
queues == <<log_messages, incoming_messages, writers, arrivals>>

\* the shutdown: SpecShutdown follows it; in the other specifications the
\* program runs on
lifecycle == <<running, process>>

\* the status dicts: SpecSnapshot follows them by identity; the other
\* specifications keep, in out, the value a poll publishes
snapshots == <<objects, cached_status, status>>

\* what the steps of a running session leave alone
apart == <<queues, lifecycle, unclosed, snapshots, connection_string>>

\* what the steps that make no device call for an axis leave alone
aside == <<apart, device>>

\* the rest of the program's state
program == <<camera, current_movement, current_zoom, current_focus, last_movement_time,
             last_status_check, speed, user, ui, bg, out, lastStart, obs, cmd, adj,
             replies, lastPoll, wd, lifecycle, unclosed, snapshots, connection_string,
             device>>

vars == <<camera, current_movement, current_zoom, current_focus, last_movement_time,
          last_status_check, speed, user, ui, bg, out, lastStart, obs, cmd, adj,
          replies, lastPoll, wd, log_messages, incoming_messages, writers, arrivals,
          running, process, unclosed, objects, cached_status, status,
          connection_string, device>>

\* self.camera is None, or a PTZ handle as is_connected sees it: "open"
\* (_output.isOpen() is True), "closed" (isOpen() is False), "noout" (_output
\* is None), "raises" (reading _output or calling isOpen raises).
NoCamera == "None"

Axes == {"movement", "zoom", "focus"}

\* ------------------------------------------------------------------- time
\* the horizon of the readings compared with movement_timeout
MoveHorizon == MaxStale + movement_timeout + 1
\* the horizon of last_status_check
PollHorizon == status_check_interval + 1
\* lastStart of an axis that is not active (no reading lies in the future)
NoAxisTime == Now + 1

\* the time that passes in one Tick
TimeStep == LoopSleep

\* a stored reading t, one Tick later
Older(t, horizon) ==
    IF t - TimeStep < 0 - horizon THEN 0 - horizon ELSE t - TimeStep

\* --------------------------------------------------------------- the output
\* no snapshot is published
NoSnapshot == [connected |-> FALSE, kind |-> "-"]
\* a step that writes status_message st ("-": not written) and appends lg to the log
Out(st, lg) == [status |-> st, log |-> lg, snapshot |-> NoSnapshot]
Quiet == Out("-", <<>>)
\* a step that sets status_message to m and calls add_log(m)
Say(m) == Out(m, <<m>>)

\* ------------------------------------------------------ connection manager
\* The value of `self.camera._output is not None and self.camera._output.isOpen()`
OutputProbe(cam) ==
    CASE cam = "open"   -> "true"
      [] cam = "closed" -> "false"
      [] cam = "noout"  -> "false"
      [] cam = "raises" -> "exception"

is_connected_heal(cam) ==
    IF cam \in {NoCamera, "open"}
    THEN [ret |-> cam = "open", camera |-> cam, attempts |-> 0, raised |-> FALSE]
    ELSE [ret |-> TRUE, camera |-> "open", attempts |-> 1, raised |-> FALSE]

is_connected_failopen(cam) ==
    [ret |-> cam # NoCamera /\ OutputProbe(cam) # "false",
     camera |-> cam, attempts |-> 0, raised |-> FALSE]

\* is_connected: the returned value, the session it leaves, the connection
\* attempts it made and whether an exception left it
is_connected(cam) ==
    IF cam = NoCamera
    THEN [ret |-> FALSE, camera |-> cam, attempts |-> 0, raised |-> FALSE]
    ELSE IF OutputProbe(cam) = "exception"
         THEN [ret |-> FALSE, camera |-> cam, attempts |-> 0, raised |-> FALSE]
         ELSE [ret |-> OutputProbe(cam) = "true", camera |-> cam,
               attempts |-> 0, raised |-> FALSE]

connect_camera_clobber(cam, ptzOk, saveOk) ==
    IF ptzOk
    THEN [ret |-> TRUE, camera |-> "open", status |-> "Connected",
          log |-> IF saveOk THEN <<"Connected">>
                  ELSE <<"Connected", "Failed to save config">>,
          raised |-> FALSE]
    ELSE [ret |-> FALSE, camera |-> NoCamera, status |-> "Connection failed",
          log |-> <<"Connection failed">>, raised |-> FALSE]

\* connect_camera: ptzOk is whether PTZ(connection_string) returns a handle,
\* saveOk whether save_config could write the file (it logs its own failure)
connect_camera(cam, ptzOk, saveOk) ==
    IF ptzOk
    THEN [ret |-> TRUE, camera |-> "open", status |-> "Connected",
          log |-> IF saveOk THEN <<"Connected">>
                  ELSE <<"Connected", "Failed to save config">>,
          raised |-> FALSE]
    ELSE [ret |-> FALSE, camera |-> cam, status |-> "Connection failed",
          log |-> <<"Connection failed">>, raised |-> FALSE]

ensure_connected_retry(cam, ptzOk, saveOk) ==
    LET p == is_connected(cam) IN
    IF p.ret
    THEN [ret |-> TRUE, camera |-> p.camera, status |-> "-", log |-> <<>>,
          attempts |-> p.attempts]
    ELSE LET c1 == connect_camera(p.camera, FALSE, saveOk)
             c2 == connect_camera(c1.camera, ptzOk, saveOk)
         IN [ret |-> c2.ret, camera |-> c2.camera,
             status |-> IF c2.ret THEN "Reconnected" ELSE c2.status,
             log |-> c1.log \o c2.log, attempts |-> p.attempts + 2]

\* ensure_connected ("-": status_message is not written)
ensure_connected(cam, ptzOk, saveOk) ==
    LET p == is_connected(cam) IN
    IF p.ret
    THEN [ret |-> TRUE, camera |-> p.camera, status |-> "-", log |-> <<>>,
          attempts |-> p.attempts]
    ELSE LET c == connect_camera(p.camera, ptzOk, saveOk)
         IN [ret |-> c.ret, camera |-> c.camera,
             status |-> IF c.ret THEN "Reconnected" ELSE c.status,
             log |-> c.log, attempts |-> p.attempts + 1]

\* `self.camera = PTZ(...)` over the handle cam: the new handle is opened
\* first and the assignment then drops the last reference to cam, which no
\* statement closes.  A handle that was open stays open, or its finalizer
\* closes it: the values of `unclosed` after the assignment.
Replaced(cam, connected, u) ==
    IF connected /\ cam = "open" THEN {u, TRUE} ELSE {u}

\* __init__'s default for connection_string
DefaultTarget == "192.168.1.32:8234"
\* the connection strings the user may type
Targets == {DefaultTarget, "/dev/ttyUSB0"}

\* no connection operation in the last step
NoObs == [op |-> "none", before |-> NoCamera, after |-> NoCamera,
          ret |-> FALSE, attempts |-> 0, raised |-> FALSE]

\* ------------------------------------------------------------ except clauses
ExceptClause_none(site) == "escapes"

\* What the except clause around a site does with an exception raised there:
\* "reported" (it writes the error to status_message and to the log),
\* "swallowed" (it passes, or returns False); "escapes" is a site with no
\* except clause that names the exception.  Every clause names Exception.
ExceptClause(site) ==
    CASE site = "command"                 -> "reported"
      [] site = "key_handler"             -> "reported"
      [] site = "disconnect"              -> "reported"
      [] site = "check_incoming_messages" -> "swallowed"
      [] site = "check_movement_timeout"  -> "swallowed"
      [] site = "status_update_loop"      -> "swallowed"

\* what a method of the UI-event thread publishes when a call at `site` raised
Reported(site) ==
    IF ExceptClause(site) = "reported" THEN Say("Error") ELSE Quiet

\* ------------------------------------------------------------ device calls
\* How a device call on self.camera can end: on an open handle it returns or
\* raises (a timeout, a bad reply); on a handle that is not open, or on None
\* (AttributeError), it raises.
CallOutcomes(cam) == IF cam = "open" THEN {"ok", "raise"} ELSE {"raise"}

\* ------------------------------------------------------------ command table
MoveCommands  == {"move_up", "move_down", "move_left", "move_right"}
ZoomCommands  == {"zoom_in", "zoom_out"}
FocusCommands == {"focus_near", "focus_far"}
StartCommands == MoveCommands \cup ZoomCommands \cup FocusCommands
StopCommands  == {"stop", "zoom_stop", "focus_stop"}

\* the value a start command stores in its axis's current_* field
ModeOf(c) ==
    CASE c = "move_up"    -> "up"
      [] c = "move_down"  -> "down"
      [] c = "move_left"  -> "left"
      [] c = "move_right" -> "right"
      [] c = "zoom_in"    -> "in"
      [] c = "zoom_out"   -> "out"
      [] c = "focus_near" -> "near"
      [] c = "focus_far"  -> "far"

AxisOf(c) ==
    IF c \in MoveCommands \cup {"stop"} THEN "movement"
    ELSE IF c \in ZoomCommands \cup {"zoom_stop"} THEN "zoom"
    ELSE IF c \in FocusCommands \cup {"focus_stop"} THEN "focus"
    ELSE "none"

\* the axes whose actuators the device call of command c starts or stops
\* (PTZ.stop() is taken to stop every actuator, as stop() records it)
AxesOf(c) ==
    IF c = "stop" THEN Axes
    ELSE IF c \in StartCommands \cup StopCommands THEN {AxisOf(c)}
    ELSE {}

\* The camera takes its commands in the order they are sent.  While the
\* watchdog's stop for axis `axis` is under way (stopping), d is the last
\* command the camera was sent for that axis: Sent(c, ...) is d once the
\* device call of command c is sent.
Sent(c, stopping, axis, d) ==
    IF stopping /\ axis \in AxesOf(c)
    THEN IF c \in StartCommands THEN "start" ELSE "stop"
    ELSE d

\* ... and once that call has raised: whether the camera took the command is
\* not known
Refused(c, stopping, axis, d) ==
    IF stopping /\ axis \in AxesOf(c) THEN "unknown" ELSE d

\* the status message (and log entry) a command publishes on success
MessageOf(c) ==
    CASE c = "move_up"    -> "Moving UP"
      [] c = "move_down"  -> "Moving DOWN"
      [] c = "move_left"  -> "Moving LEFT"
      [] c = "move_right" -> "Moving RIGHT"
      [] c = "stop"       -> "Stopped (cleared messages)"
      [] c = "zoom_in"    -> "Zooming IN"
      [] c = "zoom_out"   -> "Zooming OUT"
      [] c = "zoom_stop"  -> "Zoom STOP"
      [] c = "focus_near" -> "Focus NEAR"
      [] c = "focus_far"  -> "Focus FAR"
      [] c = "focus_stop" -> "Focus STOP"
      [] c = "home"       -> "Going HOME"
      [] c = "white_balance_auto"    -> "White balance: Auto"
      [] c = "white_balance_indoor"  -> "White balance: Indoor"
      [] c = "white_balance_outdoor" -> "White balance: Outdoor"

\* the keys of key_handler that are modelled
Keys == {"Up", "Space", "b"}
KeyCommand(k) ==
    CASE k = "Up"    -> "move_up"
      [] k = "Space" -> "stop"

\* ---------------------------------------------------------------- profiles
\* buttons and keys: the ones the user presses; session: whether the user uses
\* Reconnect and Disconnect; drops: how the link under an open handle fails
Profiles ==
    {[name |-> "pan and zoom",
      buttons |-> {"move_up", "zoom_in", "zoom_stop", "stop"},
      keys |-> {}, session |-> FALSE, drops |-> {}],
     [name |-> "tilt and focus",
      buttons |-> {"move_down", "focus_near", "focus_stop", "home"},
      keys |-> {}, session |-> FALSE, drops |-> {}],
     [name |-> "zoom and focus",
      buttons |-> {"zoom_out", "focus_far", "stop"},
      keys |-> {}, session |-> FALSE, drops |-> {}],
     [name |-> "keyboard",
      buttons |-> {}, keys |-> Keys, session |-> FALSE, drops |-> {"closed"}],
     [name |-> "session",
      buttons |-> {"move_right", "toggle_power"}, keys |-> {}, session |-> TRUE,
      drops |-> {"closed", "noout", "raises"}]}

\* the UI-event thread between two events
UiIdle == [pc |-> "idle", op |-> "none", gate |-> FALSE, n |-> 0, arg |-> "-",
           tries |-> 0]
\* an exception has left the callback that the UI-event thread was running
UiRaised == [pc |-> "raised", op |-> "none", gate |-> FALSE, n |-> 0, arg |-> "-",
             tries |-> 0]
\* the UI-event thread after a call at `site` raised
UiAfterRaise(site) == IF ExceptClause(site) = "escapes" THEN UiRaised ELSE UiIdle
\* the UI-event thread in the n-th device call of command method c
UiCall(c, n, arg) == [pc |-> "call", op |-> c, gate |-> TRUE, n |-> n, arg |-> arg,
                      tries |-> 0]
\* no status query was answered in the last step
NoReplies == [asked |-> FALSE]
\* no command method ended in the last step
NoCmd == [op |-> "none", result |-> "none", calls |-> 0]
\* command method c ended in the last step: result is "ok" (the try block ran to
\* its end) or "error" (the except block ran), calls the device calls it made
Ended(c, result, calls) == [op |-> c, result |-> result, calls |-> calls]
\* status_update_loop asleep until `wake`
BgSleep(wake) == [pc |-> "sleep", wake |-> wake, tnow |-> 0, wnow |-> 0,
                  axis |-> "none", own |-> FALSE, gate |-> FALSE]
\* an exception has left status_update_loop: the thread has ended
BgRaised == [pc |-> "raised", wake |-> 0, tnow |-> 0, wnow |-> 0,
             axis |-> "none", own |-> FALSE, gate |-> FALSE]
\* check_movement_timeout did not run in the last step
WdIdle == [st |-> [a \in Axes |-> "idle"], own |-> [a \in Axes |-> FALSE],
           done |-> FALSE, left |-> {}]

\* ------------------------------------------------------------------ speeds
SpeedKinds == {"pan", "tilt", "zoom", "focus"}
DefaultSpeed == [k \in SpeedKinds |-> DefaultSpeedValue]
\* no speed adjustment was asked for in the last step
NoAdj == [via |-> "none", kind |-> "-", delta |-> 0, before |-> DefaultSpeed]
\* the upper limit of each speed
SpeedMax(k) == IF k \in {"pan", "tilt"} THEN MaxPanTilt ELSE MaxZoomFocus
Min(a, b) == IF a < b THEN a ELSE b
Max(a, b) == IF a > b THEN a ELSE b
\* increase_*_speed (d > 0) and decrease_*_speed (d < 0) of a speed that is v
Adjusted(v, k, d) == IF d > 0 THEN Min(SpeedMax(k), v + 1) ELSE Max(0, v - 1)
\* the report of a speed method
SpeedMessage(k) ==
    CASE k = "pan" -> "Pan speed" [] k = "tilt" -> "Tilt speed"
      [] k = "zoom" -> "Zoom speed" [] k = "focus" -> "Focus speed"
\* values a configuration file may hold for a speed: load_config stores what
\* it reads
StoredValues == {DefaultSpeedValue, MaxPanTilt + StoredExcess, 0 - StoredExcess}
\* the speeds load_config may read: the same stored value for each
ConfigSpeeds == {[k \in SpeedKinds |-> v] : v \in StoredValues}
\* the users of the settings window: which speeds they adjust
SettingsProfiles ==
    {[name |-> "pan and zoom speed", buttons |-> {}, keys |-> {},
      session |-> FALSE, drops |-> {}, adjusts |-> {"pan", "zoom"}],
     [name |-> "tilt and focus speed", buttons |-> {}, keys |-> {},
      session |-> FALSE, drops |-> {}, adjusts |-> {"tilt", "focus"}]}

\* ------------------------------------------------------------------ queues
\* the threads that call add_log: the UI-event thread (every command method)
\* and status_update_loop (check_incoming_messages, check_movement_timeout)
Threads == {"ui", "bg"}
\* a thread outside add_log and check_incoming_messages
WriterIdle == [pc |-> "idle", keep |-> <<>>]
\* s[-n:]
Newest(s, n) == IF Len(s) > n THEN SubSeq(s, Len(s) - n + 1, Len(s)) ELSE s
\* the sessions of SpecQueues.  logs: the threads whose methods call add_log
\* on their own; reads: whether the camera sends messages (which
\* check_incoming_messages queues and logs, and which stop and clear clear);
\* entries: how many log entries the session makes
QueueProfiles ==
    {[name |-> "busy log", buttons |-> {}, keys |-> {}, session |-> FALSE,
      drops |-> {}, logs |-> Threads, reads |-> FALSE, entries |-> MaxArrivals],
     [name |-> "chatty camera", buttons |-> {}, keys |-> {}, session |-> FALSE,
      drops |-> {}, logs |-> {}, reads |-> TRUE, entries |-> 2 * MaxReceived]}

\* --------------------------------------------------------------- snapshots
\* the identities a status dict may have while it is referred to
Identities == {"dict1", "dict2", "dict3"}
\* no dict is at that identity
Free == [connected |-> FALSE, kind |-> "free"]
\* the user of SpecSnapshot: reconnects and disconnects while the loop polls
SnapshotProfiles ==
    {[name |-> "polled session", buttons |-> {}, keys |-> {}, session |-> TRUE,
      drops |-> {"closed", "noout"}]}

\* ---------------------------------------------------------------- shutdown
\* run() is in its render loop, Dear PyGui runs, the status thread iterates
ProcessStart == [dpg |-> TRUE, main |-> "render", thread |-> "alive", path |-> "none"]
\* the user of SpecShutdown: moves the camera up, edits the connection
\* string, quits
ShutdownProfiles ==
    {[name |-> "quit", buttons |-> {"move_up"}, keys |-> {}, session |-> TRUE,
      drops |-> {"closed"}]}

\* ------------------------------------------------------------------- Init
\* __init__: the fields' first values, then load_config (which logs when the file
\* cannot be read) and, when the file asks for auto-connect, connect_camera.
\* last_movement_time = 0 is the epoch, further back than any horizon.  The
\* background thread is created by create_ui and starts with an iteration.
Constructed(configs, profiles) ==
    /\ \E auto \in BOOLEAN, loadOk \in BOOLEAN, ptzOk \in BOOLEAN, saveOk \in BOOLEAN,
          cfg \in configs :
         LET c == connect_camera(NoCamera, ptzOk, saveOk) IN
         /\ speed = IF loadOk THEN cfg ELSE DefaultSpeed
         /\ IF auto /\ loadOk
            THEN /\ camera = c.camera
                 /\ out = Out(c.status, c.log)
                 /\ obs = [op |-> "connect", before |-> NoCamera, after |-> c.camera,
                           ret |-> c.ret, attempts |-> 1, raised |-> c.raised]
            ELSE /\ camera = NoCamera
                 /\ out = Out("Initializing...",
                           IF loadOk THEN <<>> ELSE <<"Failed to load config">>)
                 /\ obs = NoObs
    /\ current_movement = "None"
    /\ current_zoom = "None"
    /\ current_focus = "None"
    /\ last_movement_time = 0 - MoveHorizon
    /\ last_status_check = Now
    /\ user \in profiles
    /\ ui = UiIdle
    /\ bg = BgSleep(0)
    /\ lastStart = [a \in Axes |-> NoAxisTime]
    /\ cmd = NoCmd
    /\ adj = NoAdj
    /\ replies = NoReplies
    /\ lastPoll = Now
    /\ wd = WdIdle
    /\ log_messages = [i \in 1..Len(out.log) |-> i]
    /\ incoming_messages = <<>>
    /\ writers = [t \in Threads |-> WriterIdle]
    /\ arrivals = [log |-> Len(out.log), msg |-> 0]
    /\ running = TRUE
    /\ process = ProcessStart
    /\ unclosed = FALSE
    /\ connection_string = DefaultTarget
    /\ device = "idle"
    /\ objects = [d \in Identities |-> Free]
    /\ cached_status = "None"
    /\ status = "None"

\* the program started without a configuration file, or with one that holds
\* the default speeds
Init == Constructed({DefaultSpeed}, Profiles)

\* ------------------------------------------------------- the UI-event thread
\* A command method up to its device call: ensure_connected, and when it returns
\* true the call is sent (the handle is open then).  Used by the buttons and by
\* key_handler's dispatch.
CommandEnter(c) ==
    \E ptzOk \in BOOLEAN, saveOk \in BOOLEAN :
      LET e == ensure_connected(camera, ptzOk, saveOk) IN
      /\ camera' = e.camera
      /\ out' = Out(e.status, e.log)
      /\ obs' = [op |-> "ensure", before |-> camera, after |-> e.camera,
                 ret |-> e.ret, attempts |-> e.attempts, raised |-> FALSE]
      /\ ui' = IF e.ret THEN UiCall(c, 1, "-") ELSE UiIdle
      /\ device' = IF e.ret THEN Sent(c, bg.pc = "stop", bg.axis, device)
                   ELSE device
      /\ replies' = NoReplies
      /\ cmd' = NoCmd
      /\ wd' = WdIdle
      /\ UNCHANGED <<apart, user, speed, adj, lastPoll, current_movement, current_zoom, current_focus,
                     last_movement_time, last_status_check,
                     bg, lastStart>>

\* a button callback: move_up ... home
Command ==
    \E c \in user.buttons :
      /\ ui.pc = "idle"
      /\ CommandEnter(c)

\* what a start command writes to the axis fields once its device call has
\* returned (its next statement writes last_movement_time: CommandStamp)
StartEffect(c) ==
    [movement |-> IF c \in MoveCommands THEN ModeOf(c) ELSE current_movement,
     zoom     |-> IF c \in ZoomCommands THEN ModeOf(c) ELSE current_zoom,
     focus    |-> IF c \in FocusCommands THEN ModeOf(c) ELSE current_focus]

\* what stop, zoom_stop and focus_stop write once their device call has returned
StopEffect(c) ==
    [movement |-> IF c = "stop" THEN "None" ELSE current_movement,
     zoom     |-> IF c \in {"stop", "zoom_stop"} THEN "None" ELSE current_zoom,
     focus    |-> IF c \in {"stop", "focus_stop"} THEN "None" ELSE current_focus]

NoEffect_reset ==
    [movement |-> "None", zoom |-> "None", focus |-> "None"]

\* what a command writes to the axis fields when its device call raised, and
\* what a command that is no motion command writes to them
NoEffect ==
    [movement |-> current_movement, zoom |-> current_zoom, focus |-> current_focus]

CommandEffect(c) ==
    IF c \in StartCommands THEN StartEffect(c)
    ELSE IF c \in StopCommands THEN StopEffect(c)
    ELSE NoEffect

\* get_power's replies to toggle_power (1, 0, anything else); "-" for a call
\* that is not toggle_power's first
ToggleReplies(c, n) ==
    IF c = "toggle_power" /\ n = 1 THEN {"1", "0", "other"} ELSE {"-"}

\* toggle_power's report after its second device call
PowerMessage(reply) == IF reply = "1" THEN "Power OFF" ELSE "Power ON"

\* A command method after a device call: the call returns and the try block
\* goes on, or it raises and the except block reports the error.  A start
\* command writes its axis field here and last_movement_time in its next
\* statement; no lock keeps the loop from running between the two.
\* toggle_power's first call is get_power: on 1 or 0 it sends power(0) or
\* power(1), on any other reply it ends without a report.
CommandReturn ==
    /\ ui.pc = "call"
    /\ \E r \in CallOutcomes(camera), reply \in ToggleReplies(ui.op, ui.n) :
         LET c == ui.op
             started == r = "ok" /\ c \in StartCommands
             query == r = "ok" /\ c = "toggle_power" /\ ui.n = 1
             again == query /\ reply \in {"1", "0"}
             f == IF r = "ok" THEN CommandEffect(c) ELSE NoEffect
         IN /\ current_movement' = f.movement
            /\ current_zoom' = f.zoom
            /\ current_focus' = f.focus
            /\ lastStart' = [a \in Axes |->
                   IF started /\ AxisOf(c) = a THEN Now
                   ELSE IF f[a] = "None" THEN NoAxisTime ELSE lastStart[a]]
            /\ out' = IF started \/ query THEN Quiet
                      ELSE IF r # "ok" THEN Reported("command")
                      ELSE IF c = "toggle_power" THEN Say(PowerMessage(ui.arg))
                      ELSE Say(MessageOf(c))
            /\ ui' = IF started THEN [ui EXCEPT !.pc = "stamp"]
                     ELSE IF again THEN UiCall(c, 2, reply)
                     ELSE IF r # "ok" THEN UiAfterRaise("command")
                     ELSE UiIdle
            /\ device' = IF r = "ok" THEN device
                          ELSE Refused(c, bg.pc = "stop", bg.axis, device)
            /\ replies' = NoReplies
            /\ cmd' = IF started \/ again THEN NoCmd
                      ELSE Ended(c, IF r = "ok" THEN "ok" ELSE "error", ui.n)
    /\ obs' = NoObs
    /\ wd' = WdIdle
    /\ UNCHANGED <<apart, user, speed, adj, lastPoll, camera, last_movement_time, last_status_check, bg>>

\* a start command's `self.last_movement_time = time.time()` and its report
CommandStamp ==
    /\ ui.pc = "stamp"
    /\ last_movement_time' = Now
    /\ out' = Say(MessageOf(ui.op))
    /\ ui' = UiIdle
    /\ replies' = NoReplies
    /\ cmd' = Ended(ui.op, "ok", ui.n)
    /\ obs' = NoObs
    /\ wd' = WdIdle
    /\ UNCHANGED <<aside, user, speed, adj, lastPoll, camera, current_movement, current_zoom, current_focus,
                   last_status_check, bg, lastStart>>

\* key_handler up to its dispatch: its own ensure_connected
KeyPress ==
    \E k \in user.keys, ptzOk \in BOOLEAN, saveOk \in BOOLEAN :
      LET e == ensure_connected(camera, ptzOk, saveOk) IN
      /\ ui.pc = "idle"
      /\ camera' = e.camera
      /\ out' = Out(e.status, e.log)
      /\ obs' = [op |-> "ensure", before |-> camera, after |-> e.camera,
                 ret |-> e.ret, attempts |-> e.attempts, raised |-> FALSE]
      /\ ui' = IF e.ret
               THEN [pc |-> "key", op |-> k, gate |-> TRUE, n |-> 0, arg |-> "-",
                     tries |-> e.attempts]
               ELSE UiIdle
      /\ replies' = NoReplies
      /\ cmd' = NoCmd
      /\ wd' = WdIdle
      /\ UNCHANGED <<aside, user, speed, adj, lastPoll, current_movement, current_zoom, current_focus,
                     last_movement_time, last_status_check,
                     bg, lastStart>>

\* key_handler's dispatch: a command method, or for "b" the white-balance query,
\* whose exception (a handle that is no longer open) key_handler's except reports
KeyDispatch ==
    /\ ui.pc = "key"
    /\ IF ui.op # "b"
       THEN CommandEnter(KeyCommand(ui.op))
       ELSE /\ ui' = IF camera = "open"
                     THEN [pc |-> "wbq", op |-> "b", gate |-> TRUE, n |-> 0,
                           arg |-> "-", tries |-> ui.tries]
                     ELSE UiAfterRaise("key_handler")
            /\ out' = IF camera = "open" THEN Quiet ELSE Reported("key_handler")
            /\ obs' = NoObs
            /\ wd' = WdIdle
            /\ replies' = NoReplies
            /\ cmd' = NoCmd
            /\ UNCHANGED <<aside, user, speed, adj, lastPoll, camera, current_movement, current_zoom, current_focus,
                           last_movement_time, last_status_check,
                           bg, lastStart>>

WbCommandFor(mode) ==
    IF mode = 0 THEN "white_balance_indoor"
    ELSE IF mode = 1 THEN "white_balance_outdoor"
    ELSE "white_balance_auto"

\* get_white_balance_mode returns: key_handler calls the white-balance command
\* for the mode read, or its except block reports the exception
WbReturn ==
    /\ ui.pc = "wbq"
    /\ \E r \in CallOutcomes(camera), mode \in {0, 1, 2} :
         IF r = "ok"
         THEN CommandEnter(WbCommandFor(mode))
         ELSE /\ ui' = UiAfterRaise("key_handler")
              /\ out' = Reported("key_handler")
              /\ obs' = NoObs
              /\ wd' = WdIdle
              /\ replies' = NoReplies
              /\ cmd' = NoCmd
              /\ UNCHANGED <<aside, user, speed, adj, lastPoll, camera, current_movement, current_zoom, current_focus,
                             last_movement_time, last_status_check,
                             bg, lastStart>>

\* reconnect (the Reconnect button)
Reconnect ==
    /\ user.session
    /\ ui.pc = "idle"
    /\ \E ptzOk \in BOOLEAN, saveOk \in BOOLEAN :
         LET c == connect_camera(camera, ptzOk, saveOk) IN
         /\ camera' = c.camera
         /\ unclosed' \in Replaced(camera, c.ret, unclosed)
         /\ out' = Out(IF c.ret THEN "Reconnected" ELSE c.status,
                        <<"Reconnecting to">> \o c.log)
         /\ obs' = [op |-> "connect", before |-> camera, after |-> c.camera,
                    ret |-> c.ret, attempts |-> 1, raised |-> c.raised]
    /\ wd' = WdIdle
    /\ replies' = NoReplies
    /\ cmd' = NoCmd
    /\ UNCHANGED <<queues, lifecycle, snapshots, connection_string, device, user, speed, adj, lastPoll, current_movement,
                   current_zoom, current_focus, last_movement_time,
                   last_status_check, ui, bg, lastStart>>

\* disconnect: closeOk is whether self.camera.close() returns
disconnect(cam, closeOk) ==
    IF cam = NoCamera
    THEN [camera |-> cam, out |-> Quiet, closed |-> FALSE, raised |-> FALSE]
    ELSE IF closeOk
         THEN [camera |-> NoCamera, out |-> Say("Disconnected"), closed |-> TRUE,
               raised |-> FALSE]
         ELSE [camera |-> cam, out |-> Reported("disconnect"), closed |-> FALSE,
               raised |-> ExceptClause("disconnect") = "escapes"]

\* the Disconnect button
Disconnect ==
    /\ user.session
    /\ ui.pc = "idle"
    /\ \E closeOk \in BOOLEAN :
         LET d == disconnect(camera, closeOk) IN
         /\ camera' = d.camera
         /\ out' = d.out
         /\ obs' = [op |-> "disconnect", before |-> camera, after |-> d.camera,
                    ret |-> d.closed, attempts |-> 0, raised |-> d.raised]
    /\ wd' = WdIdle
    /\ replies' = NoReplies
    /\ cmd' = NoCmd
    /\ UNCHANGED <<aside, user, speed, adj, lastPoll, current_movement, current_zoom, current_focus, last_movement_time,
                   last_status_check, ui, bg, lastStart>>

\* update_connection_string: the callback of the connection input field
update_connection_string ==
    /\ user.session
    /\ ui.pc = "idle"
    /\ \E app_data \in Targets : connection_string' = app_data
    /\ out' = Say("Connection string updated")
    /\ obs' = NoObs
    /\ wd' = WdIdle
    /\ replies' = NoReplies
    /\ cmd' = NoCmd
    /\ UNCHANGED <<queues, lifecycle, unclosed, snapshots, device, user, speed, adj, lastPoll,
                   camera, current_movement, current_zoom, current_focus,
                   last_movement_time, last_status_check, ui, bg, lastStart>>

\* ------------------------------------------------------- speed adjustment
\* a speed button of the settings window: increase_*_speed, decrease_*_speed
SpeedButton ==
    /\ ui.pc = "idle"
    /\ \E k \in user.adjusts, d \in {1, 0 - 1} :
         /\ speed' = [speed EXCEPT ![k] = Adjusted(speed[k], k, d)]
         /\ adj' = [via |-> "button", kind |-> k, delta |-> d, before |-> speed]
         /\ out' = Say(SpeedMessage(k))
    /\ obs' = NoObs
    /\ replies' = NoReplies
    /\ cmd' = NoCmd
    /\ wd' = WdIdle
    /\ UNCHANGED <<aside, user, lastPoll, camera, current_movement, current_zoom, current_focus,
                   last_movement_time, last_status_check, ui, bg, lastStart>>

\* a speed key (, . < > a d s f): key_handler's ensure_connected, then the
\* speed method when it returned true
SpeedKey ==
    /\ ui.pc = "idle"
    /\ \E k \in user.adjusts, d \in {1, 0 - 1}, ptzOk \in BOOLEAN, saveOk \in BOOLEAN :
         LET e == ensure_connected(camera, ptzOk, saveOk) IN
         /\ camera' = e.camera
         /\ obs' = [op |-> "ensure", before |-> camera, after |-> e.camera,
                    ret |-> e.ret, attempts |-> e.attempts, raised |-> FALSE]
         /\ speed' = IF e.ret THEN [speed EXCEPT ![k] = Adjusted(speed[k], k, d)]
                     ELSE speed
         /\ adj' = [via |-> "key", kind |-> k, delta |-> d, before |-> speed]
         /\ out' = IF e.ret THEN Out(SpeedMessage(k), e.log \o <<SpeedMessage(k)>>)
                   ELSE Out(e.status, e.log)
    /\ replies' = NoReplies
    /\ cmd' = NoCmd
    /\ wd' = WdIdle
    /\ UNCHANGED <<aside, user, lastPoll, current_movement, current_zoom, current_focus,
                   last_movement_time, last_status_check, ui, bg, lastStart>>


\* ---------------------------------------------------------- the environment
\* TimeStep units of time pass: every stored reading is that much older, the
\* loop's sleep that much shorter.  The loop goes on as soon as its sleep is
\* over, a reading of `now` that it still holds over a device call is at most
\* MaxStale old, and no time passes between two adjacent assignments.
Tick ==
    /\ ui.pc # "stamp"
    /\ bg.pc = "sleep" => bg.wake > 0
    /\ bg.pc = "poll" => bg.tnow - TimeStep >= 0 - MaxStale
    /\ bg.pc = "stop" => bg.wnow - TimeStep >= 0 - MaxStale
    /\ last_movement_time' = Older(last_movement_time, MoveHorizon)
    /\ last_status_check' = Older(last_status_check, PollHorizon)
    /\ lastPoll' = Older(lastPoll, PollHorizon)
    /\ lastStart' = [a \in Axes |->
           IF lastStart[a] = NoAxisTime THEN NoAxisTime
           ELSE Older(lastStart[a], MoveHorizon)]
    /\ bg' = [bg EXCEPT !.wake = IF bg.wake > TimeStep THEN bg.wake - TimeStep ELSE 0,
                        !.tnow = IF bg.pc = "poll" THEN bg.tnow - TimeStep ELSE 0,
                        !.wnow = IF bg.pc = "stop" THEN bg.wnow - TimeStep ELSE 0]
    /\ out' = Quiet
    /\ obs' = NoObs
    /\ wd' = WdIdle
    /\ replies' = NoReplies
    /\ cmd' = NoCmd
    /\ UNCHANGED <<aside, user, speed, adj, camera, current_movement, current_zoom, current_focus, ui>>

\* the transport under an open handle closes or breaks without the program acting
LinkDrop ==
    /\ camera = "open"
    /\ camera' \in user.drops
    /\ out' = Quiet
    /\ obs' = NoObs
    /\ wd' = WdIdle
    /\ replies' = NoReplies
    /\ cmd' = NoCmd
    /\ UNCHANGED <<aside, user, speed, adj, lastPoll, current_movement, current_zoom, current_focus,
                   last_movement_time, last_status_check, ui, bg, lastStart>>

\* ------------------------------------------------------ get_camera_status
\* A status query returns ("ok"), raises one of IndexError, ValueError,
\* AttributeError, which the inner try blocks catch ("caught"), or raises
\* something else, which only the outer try block catches ("uncaught").
StatusFields == {"pan", "tilt", "zoom", "video_format", "ae_mode", "white_balance"}
AllOk == [x \in StatusFields |-> "ok"]
\* the outcomes of the six field queries that a poll is given here
FieldCases ==
    {AllOk, [AllOk EXCEPT !["video_format"] = "caught"],
     [AllOk EXCEPT !["video_format"] = "uncaught"]}
\* get_power's reply (1, 0, anything else), or "raise"
PowerReplies == {"1", "0", "other", "raise"}

PowerStr(power) ==
    IF power = "1" THEN "ON" ELSE IF power = "0" THEN "OFF" ELSE "UNKNOWN"

StatusOffline_connected(cam) == [connected |-> TRUE, kind |-> "status"]

\* get_camera_status when self.camera is None or is_connected() is false
StatusOffline(cam) ==
    IF cam = NoCamera
    THEN [connected |-> FALSE, kind |-> "No camera connection"]
    ELSE [connected |-> FALSE, kind |-> "Connection lost"]

\* get_camera_status past the liveness test, from the replies to its queries:
\* sentinel is the set of fields left at 0 or "Unknown"
StatusOnline(power, f) ==
    IF power = "raise" \/ \E x \in StatusFields : f[x] = "uncaught"
    THEN [connected |-> FALSE, kind |-> "error"]
    ELSE [connected |-> TRUE, kind |-> "status", power |-> PowerStr(power),
          sentinel |-> {x \in StatusFields : f[x] = "caught"}]

\* --------------------------------------------------- check_movement_timeout
AxisOrder == <<"movement", "zoom", "focus">>
AxisIndex(a) == CHOOSE i \in 1..3 : AxisOrder[i] = a

\* the AxisState table as a function
CurrentAxes ==
    [movement |-> current_movement, zoom |-> current_zoom, focus |-> current_focus]

\* the test of check_movement_timeout on an axis whose field holds `mode`, with
\* the reading t of `now`
TimedOut(mode, t) ==
    mode # "None" /\ (t - last_movement_time) > movement_timeout

\* history: the axis is active and its own last start command returned more
\* than the timeout before t
OwnSilence(a, mode, t) ==
    mode # "None" /\ lastStart[a] # NoAxisTime
                  /\ (t - lastStart[a]) > movement_timeout

\* check_movement_timeout from its i-th test on, with the reading t of `now` and
\* the axis fields cur, up to the next stop call it sends (on None, or on a
\* handle that is not open, the call raises at once and the except block passes)
\* or to its end, where the loop goes to sleep
\* where the loop is when an exception raised inside check_incoming_messages
\* or check_movement_timeout has left that method: the loop's own except
\* clause ends the iteration
WdAbort(w) ==
    [pc |-> IF ExceptClause("status_update_loop") = "escapes" THEN "raised"
            ELSE "sleep",
     axis |-> "none", wd |-> w]

RECURSIVE WdScan(_, _, _, _)
WdScan(i, t, w, cur) ==
    IF i > 3
    THEN [pc |-> "sleep", axis |-> "none",
          wd |-> [w EXCEPT !.done = TRUE,
                           !.left = {a \in Axes : OwnSilence(a, cur[a], t)}]]
    ELSE LET a == AxisOrder[i]
             own == OwnSilence(a, cur[a], t)
         IN IF TimedOut(cur[a], t)
            THEN IF camera = "open"
                 THEN [pc |-> "stop", axis |-> a,
                       wd |-> [w EXCEPT !.st[a] = "sent", !.own[a] = own]]
                 ELSE IF ExceptClause("check_movement_timeout") = "escapes"
                      THEN WdAbort([w EXCEPT !.st[a] = "fail", !.own[a] = own])
                      ELSE WdScan(i + 1, t,
                                  [w EXCEPT !.st[a] = "fail", !.own[a] = own], cur)
            ELSE WdScan(i + 1, t,
                        [w EXCEPT !.st[a] = IF cur[a] # "None" THEN "skip"
                                            ELSE "inactive",
                                  !.own[a] = own],
                        cur)

\* the loop's position after a scan r that read `now` as t
BgAfterScan(r, t) ==
    IF r.pc = "sleep" THEN BgSleep(LoopSleep)
    ELSE IF r.pc = "raised" THEN BgRaised
    ELSE [pc |-> "stop", wake |-> 0, tnow |-> 0, wnow |-> t, axis |-> r.axis,
          own |-> r.wd.own[r.axis], gate |-> FALSE]

\* what the camera was last sent for the axis of a scan r's stop call: a scan
\* that stopped at a stop call has sent it
WdSent(r) == IF r.pc = "stop" THEN "stop" ELSE "idle"

\* the loop from check_movement_timeout on: `now = time.time()`, then the tests
Watchdog ==
    LET r == WdScan(1, Now, WdIdle, CurrentAxes) IN
    /\ bg' = BgAfterScan(r, Now)
    /\ wd' = r.wd
    /\ device' = WdSent(r)

\* the loop from check_incoming_messages on: the raw read is sent when the
\* session is live, otherwise the watchdog's check follows at once
Drain ==
    IF camera # NoCamera /\ is_connected(camera).ret
    THEN /\ bg' = [pc |-> "read", wake |-> 0, tnow |-> 0, wnow |-> 0,
                   axis |-> "none", own |-> FALSE, gate |-> FALSE]
         /\ wd' = WdIdle
         /\ device' = device
    ELSE Watchdog

\* The status labels are updated between the poll and
\* check_incoming_messages, inside the loop's try block: the Dear PyGui calls
\* return, or one of them raises.
DisplayOutcomes == {"shown", "raise"}

\* the loop after a poll's display update: on, to check_incoming_messages, or
\* through `except Exception: pass` to the sleep
AfterDisplay(shown) ==
    IF shown = "shown" THEN Drain
    ELSE /\ bg' = BgAfterScan(WdAbort(WdIdle), Now)
         /\ wd' = WdIdle
         /\ device' = device

\* history: the liveness probe made by a step of the loop (get_camera_status
\* and check_incoming_messages call is_connected unless self.camera is None)
Probed ==
    IF camera = NoCamera THEN NoObs
    ELSE LET p == is_connected(camera) IN
         [op |-> "is_connected", before |-> camera, after |-> p.camera,
          ret |-> p.ret, attempts |-> p.attempts, raised |-> p.raised]

\* ------------------------------------------------------ status_update_loop
PollDue_always(t) == TRUE

\* the rate limit of the status poll, with the reading t of `now`
PollDue(t) == (t - last_status_check) > status_check_interval

\* an iteration starts (the sleep is over): the status poll when it is due
BgWake ==
    /\ bg.pc = "sleep"
    /\ bg.wake = 0
    /\ IF PollDue(Now) /\ camera # NoCamera /\ is_connected(camera).ret
       THEN /\ bg' = [pc |-> "poll", wake |-> 0, tnow |-> Now, wnow |-> 0,
                      axis |-> "none", own |-> FALSE, gate |-> FALSE]
            /\ wd' = WdIdle
            /\ out' = Quiet
            /\ UNCHANGED <<last_status_check, device>>
       ELSE IF PollDue(Now)
            THEN /\ out' = [Quiet EXCEPT !.snapshot = StatusOffline(camera)]
                 /\ last_status_check' = Now
                 /\ \E shown \in DisplayOutcomes : AfterDisplay(shown)
            ELSE /\ out' = Quiet
                 /\ UNCHANGED last_status_check
                 /\ Drain
    /\ lastPoll' = IF PollDue(Now) THEN Now ELSE lastPoll
    /\ camera' = is_connected(camera).camera
    /\ obs' = Probed
    /\ replies' = NoReplies
    /\ cmd' = NoCmd
    /\ UNCHANGED <<apart, user, speed, adj, current_movement, current_zoom, current_focus,
                   last_movement_time, ui, lastStart>>

\* get_camera_status's queries have been answered: the snapshot is published
BgPollDone ==
    /\ bg.pc = "poll"
    /\ \E power \in PowerReplies, f \in FieldCases :
         /\ camera # "open" => power = "raise"
         /\ out' = [Quiet EXCEPT !.snapshot = StatusOnline(power, f)]
         /\ replies' = [asked |-> TRUE, power |-> power, f |-> f]
    /\ last_status_check' = bg.tnow
    /\ \E shown \in DisplayOutcomes : AfterDisplay(shown)
    /\ camera' = is_connected(camera).camera
    /\ obs' = Probed
    /\ cmd' = NoCmd
    /\ UNCHANGED <<apart, user, speed, adj, lastPoll, current_movement, current_zoom, current_focus,
                   last_movement_time, ui, lastStart>>

\* check_incoming_messages's raw read returns (some bytes, or nothing) or raises
BgReadDone ==
    /\ bg.pc = "read"
    /\ \E r \in CallOutcomes(camera), some \in BOOLEAN :
         /\ out' = IF r = "ok" /\ some THEN Out("-", <<"Msg">>) ELSE Quiet
         /\ IF r # "ok" /\ ExceptClause("check_incoming_messages") = "escapes"
            THEN /\ bg' = BgAfterScan(WdAbort(WdIdle), Now)
                 /\ wd' = WdIdle
                 /\ device' = device
            ELSE Watchdog
    /\ obs' = NoObs
    /\ replies' = NoReplies
    /\ cmd' = NoCmd
    /\ UNCHANGED <<apart, user, speed, adj, lastPoll, camera, current_movement, current_zoom, current_focus,
                   last_movement_time, last_status_check, ui, lastStart>>

\* the watchdog's stop call for axis bg.axis returns or raises, and
\* check_movement_timeout goes on with the axes after it
BgStopDone ==
    /\ bg.pc = "stop"
    /\ \E r \in CallOutcomes(camera) :
         LET a == bg.axis
             ok == r = "ok"
             cur == IF ok THEN [CurrentAxes EXCEPT ![a] = "None"] ELSE CurrentAxes
             w == [WdIdle EXCEPT !.st[a] = IF ok THEN "ok" ELSE "fail",
                                 !.own[a] = bg.own]
             s == IF ~ok /\ ExceptClause("check_movement_timeout") = "escapes"
                  THEN WdAbort(w)
                  ELSE WdScan(AxisIndex(a) + 1, bg.wnow, w, cur)
         IN /\ current_movement' = cur.movement
            /\ current_zoom' = cur.zoom
            /\ current_focus' = cur.focus
            /\ out' = IF ok /\ a = "movement"
                      THEN Out("Movement stopped", <<"Movement stopped (timeout)">>)
                      ELSE Quiet
            /\ lastStart' = IF ok THEN [lastStart EXCEPT ![a] = NoAxisTime]
                            ELSE lastStart
            /\ bg' = BgAfterScan(s, bg.wnow)
            /\ wd' = s.wd
            /\ device' = WdSent(s)
    /\ obs' = NoObs
    /\ replies' = NoReplies
    /\ cmd' = NoCmd
    /\ UNCHANGED <<apart, user, speed, adj, lastPoll, camera, last_movement_time, last_status_check, ui>>

\* ------------------------------------------------------------ specification
Next ==
    \/ Command
    \/ CommandReturn
    \/ CommandStamp
    \/ KeyPress
    \/ KeyDispatch
    \/ WbReturn
    \/ Reconnect
    \/ Disconnect
    \/ Tick
    \/ LinkDrop
    \/ BgWake
    \/ BgPollDone
    \/ BgReadDone
    \/ BgStopDone

Spec == Init /\ [][Next]_vars

\* The settings window alone: the program started with whatever its
\* configuration file holds, and the user adjusts speeds.  The loop only
\* displays the speeds, so its steps are left out here.
InitSettings == Constructed(ConfigSpeeds, SettingsProfiles)

NextSettings ==
    \/ SpeedButton
    \/ SpeedKey

SpecSettings == InitSettings /\ [][NextSettings]_vars

\* ------------------------------------------------------- the two lists
\* add_log's append, called by a method of thread t
add_log(t) ==
    /\ \/ writers[t].pc = "idle" /\ t \in user.logs
       \/ writers[t].pc = "log"
    /\ arrivals.log < user.entries
    /\ log_messages' = Append(log_messages, arrivals.log + 1)
    /\ arrivals' = [arrivals EXCEPT !.log = @ + 1]
    /\ writers' = [writers EXCEPT ![t] = [pc |-> "trim", keep |-> <<>>]]
    /\ UNCHANGED <<incoming_messages, program>>

\* add_log's length test, and the slice it takes of a list that is too long
AddLogTrim(t) ==
    /\ writers[t].pc = "trim"
    /\ writers' = [writers EXCEPT ![t] =
                     IF Len(log_messages) > LogCapacity
                     THEN [pc |-> "store", keep |-> Newest(log_messages, LogCapacity)]
                     ELSE WriterIdle]
    /\ UNCHANGED <<log_messages, incoming_messages, arrivals, program>>

\* add_log stores the slice as self.log_messages
AddLogStore(t) ==
    /\ writers[t].pc = "store"
    /\ log_messages' = writers[t].keep
    /\ writers' = [writers EXCEPT ![t] = WriterIdle]
    /\ UNCHANGED <<incoming_messages, arrivals, program>>

\* check_incoming_messages read a message and appends it
check_incoming_messages ==
    /\ user.reads
    /\ writers["bg"].pc = "idle"
    /\ arrivals.msg < MaxReceived
    /\ incoming_messages' = Append(incoming_messages, arrivals.msg + 1)
    /\ arrivals' = [arrivals EXCEPT !.msg = @ + 1]
    /\ writers' = [writers EXCEPT !["bg"] = [pc |-> "messages", keep |-> <<>>]]
    /\ UNCHANGED <<log_messages, program>>

\* its length test, and the slice it takes of a list that is too long; when
\* the list is short enough it goes on to add_log
MessagesTrim ==
    /\ writers["bg"].pc = "messages"
    /\ writers' = [writers EXCEPT !["bg"] =
                     IF Len(incoming_messages) > max_messages
                     THEN [pc |-> "keep", keep |-> Newest(incoming_messages, max_messages)]
                     ELSE [pc |-> "log", keep |-> <<>>]]
    /\ UNCHANGED <<log_messages, incoming_messages, arrivals, program>>

\* it stores the slice as self.incoming_messages, and goes on to add_log
MessagesStore ==
    /\ writers["bg"].pc = "keep"
    /\ incoming_messages' = writers["bg"].keep
    /\ writers' = [writers EXCEPT !["bg"] = [pc |-> "log", keep |-> <<>>]]
    /\ UNCHANGED <<log_messages, arrivals, program>>

\* stop and clear: incoming_messages.clear(), then add_log
ClearMessages ==
    /\ user.reads
    /\ writers["ui"].pc = "idle"
    /\ incoming_messages' = <<>>
    /\ writers' = [writers EXCEPT !["ui"] = [pc |-> "log", keep |-> <<>>]]
    /\ UNCHANGED <<log_messages, arrivals, program>>

\* The log and the message queue alone: commands and loop iterations are
\* reduced to what they do to the two lists.
InitQueues == Constructed({DefaultSpeed}, QueueProfiles)

NextQueues ==
    \/ \E t \in Threads : add_log(t)
    \/ \E t \in Threads : AddLogTrim(t)
    \/ \E t \in Threads : AddLogStore(t)
    \/ check_incoming_messages
    \/ MessagesTrim
    \/ MessagesStore
    \/ ClearMessages

SpecQueues == InitQueues /\ [][NextQueues]_vars

\* ------------------------------------------------- the published snapshot
NewDict_inplace ==
    IF cached_status # "None" THEN cached_status
    ELSE CHOOSE d \in Identities : objects[d] = Free

\* the identity of the dict that a `return {...}` of get_camera_status makes:
\* a new object, at an identity that no live dict has
NewDict == CHOOSE d \in Identities : objects[d] = Free

\* get_camera_status: the dict it returns
get_camera_status(cam, power, f) ==
    IF cam = NoCamera \/ ~is_connected(cam).ret THEN StatusOffline(cam)
    ELSE StatusOnline(power, f)

\* `status = self.get_camera_status()`
PollBuild ==
    /\ status = "None"
    /\ \E power \in PowerReplies, f \in FieldCases :
         /\ camera # "open" => power = "raise"
         /\ objects' = [objects EXCEPT ![NewDict] = get_camera_status(camera, power, f)]
    /\ status' = NewDict
    /\ UNCHANGED <<cached_status, connection_string, device, queues, lifecycle, unclosed, camera, current_movement,
                   current_zoom, current_focus, last_movement_time, last_status_check,
                   speed, user, ui, bg, out, lastStart, obs, cmd, adj, replies,
                   lastPoll, wd>>

\* `self.last_status_check = now` and `self._cached_status = status`: the
\* attribute is rebound, and the dict it referred to, which nothing else
\* refers to, is freed
PollPublish ==
    /\ status # "None"
    /\ last_status_check' = Now
    /\ cached_status' = status
    /\ status' = "None"
    /\ objects' = [d \in Identities |->
                     IF d = cached_status /\ d # status THEN Free ELSE objects[d]]
    /\ UNCHANGED <<queues, lifecycle, unclosed, connection_string, device, camera,
                   current_movement, current_zoom,
                   current_focus, last_movement_time, speed, user, ui, bg, out,
                   lastStart, obs, cmd, adj, replies, lastPoll, wd>>

\* The status poll alone, with a session that the user opens and closes and
\* a link that fails: the poll is due at every iteration.
InitSnapshot == Constructed({DefaultSpeed}, SnapshotProfiles)

NextSnapshot ==
    \/ PollBuild
    \/ PollPublish
    \/ Reconnect
    \/ Disconnect
    \/ LinkDrop

SpecSnapshot == InitSnapshot /\ [][NextSnapshot]_vars

\* ------------------------------------------------------------ the shutdown
\* key_handler on Escape: its ensure_connected, and when that returned true
\* `self.running = False`
EscapeKey ==
    /\ process.main = "render"
    /\ ui.pc = "idle"
    /\ \E ptzOk \in BOOLEAN, saveOk \in BOOLEAN :
         LET e == ensure_connected(camera, ptzOk, saveOk) IN
         /\ camera' = e.camera
         /\ out' = Out(e.status, e.log)
         /\ obs' = [op |-> "ensure", before |-> camera, after |-> e.camera,
                    ret |-> e.ret, attempts |-> e.attempts, raised |-> FALSE]
         /\ running' = IF e.ret THEN FALSE ELSE running
         /\ process' = IF e.ret /\ process.path = "none"
                       THEN [process EXCEPT !.path = "Escape"] ELSE process
    /\ replies' = NoReplies
    /\ cmd' = NoCmd
    /\ wd' = WdIdle
    /\ UNCHANGED <<queues, unclosed, snapshots, connection_string, device, user, speed, adj, lastPoll, current_movement,
                   current_zoom, current_focus, last_movement_time, last_status_check,
                   ui, bg, lastStart>>

\* Dear PyGui stops running: is_dearpygui_running() is false from now on
StopDearPyGui(path) ==
    /\ ui.pc = "idle"
    /\ process.dpg
    /\ process' = [process EXCEPT !.dpg = FALSE,
                                  !.path = IF @ = "none" THEN path ELSE @]
    /\ UNCHANGED <<queues, unclosed, snapshots, connection_string, device, running, camera, current_movement, current_zoom,
                   current_focus, last_movement_time, last_status_check, speed, user,
                   ui, bg, out, lastStart, obs, cmd, adj, replies, lastPoll, wd>>

\* File > Exit: dpg.stop_dearpygui()
ExitMenu == process.main = "render" /\ StopDearPyGui("File > Exit")

\* the user closes the viewport
ViewportClosed == process.main = "render" /\ StopDearPyGui("viewport closed")

\* run(): `while self.running and dpg.is_dearpygui_running()` ends, and
\* dpg.destroy_context() is called
RunLeave ==
    /\ process.main = "render"
    /\ ui.pc = "idle"
    /\ ~running \/ ~process.dpg
    /\ process' = [process EXCEPT !.main = "destroyed"]
    /\ UNCHANGED <<queues, unclosed, snapshots, connection_string, device, running, camera, current_movement, current_zoom,
                   current_focus, last_movement_time, last_status_check, speed, user,
                   ui, bg, out, lastStart, obs, cmd, adj, replies, lastPoll, wd>>

\* run() and main() return and the interpreter exits: the status thread is a
\* daemon thread and ends with it wherever it is, and the session, which no
\* statement closes, is released with the process
RunReturn ==
    /\ process.main = "destroyed"
    /\ process' = [process EXCEPT !.main = "exited",
                                  !.thread = IF @ = "alive" THEN "killed" ELSE @]
    /\ UNCHANGED <<queues, unclosed, snapshots, connection_string, device, running, camera, current_movement, current_zoom,
                   current_focus, last_movement_time, last_status_check, speed, user,
                   ui, bg, out, lastStart, obs, cmd, adj, replies, lastPoll, wd>>

\* status_update_loop: `while self.running` is true and an iteration starts
LoopIterate ==
    /\ process.thread = "alive"
    /\ running
    /\ BgWake

\* status_update_loop: `while self.running` is false and the thread returns
LoopReturn ==
    /\ process.thread = "alive"
    /\ bg.pc = "sleep"
    /\ bg.wake = 0
    /\ ~running
    /\ process' = [process EXCEPT !.thread = "returned"]
    /\ UNCHANGED <<queues, unclosed, snapshots, connection_string, device, running, camera, current_movement, current_zoom,
                   current_focus, last_movement_time, last_status_check, speed, user,
                   ui, bg, out, lastStart, obs, cmd, adj, replies, lastPoll, wd>>

\* the rest of an iteration
LoopPollDone == process.thread = "alive" /\ BgPollDone
LoopReadDone == process.thread = "alive" /\ BgReadDone
LoopStopDone == process.thread = "alive" /\ BgStopDone

\* the button callbacks run inside run()'s render loop
Click == process.main = "render" /\ Command
ClickReturn == process.main = "render" /\ CommandReturn
ClickStamp == process.main = "render" /\ CommandStamp

\* the connection input field while run() renders
EditTarget == process.main = "render" /\ update_connection_string

\* time passes while the process lives
Pass == process.main # "exited" /\ Tick

\* the link fails while the process lives
Drop == process.main # "exited" /\ LinkDrop

\* The end of a session: the status thread iterates, the user moves the
\* camera and quits.
InitShutdown == Constructed({DefaultSpeed}, ShutdownProfiles)

NextShutdown ==
    \/ EscapeKey
    \/ ExitMenu
    \/ ViewportClosed
    \/ RunLeave
    \/ RunReturn
    \/ LoopIterate
    \/ LoopReturn
    \/ LoopPollDone
    \/ LoopReadDone
    \/ LoopStopDone
    \/ Click
    \/ ClickReturn
    \/ ClickStamp
    \/ EditTarget
    \/ Pass
    \/ Drop

SpecShutdown == InitShutdown /\ [][NextShutdown]_vars

\* ------------------------------------------------------------------ claims
\* C1 (watchdog convergence): when check_movement_timeout has finished, no axis
\* is left active whose last start command is more than movement_timeout before
\* the tick's reading of the time; the tick has stopped each such axis and
\* has set it to None.
C1_WatchdogConvergence == wd.done => wd.left = {}

\* C2 (watchdog stop is best-effort): when the watchdog's stop call for an axis
\* whose timeout has run out raises, the axis is None once the except block
\* has run.
C2_StopBestEffort ==
    \A a \in Axes : wd.st[a] = "fail" /\ wd.own[a] => CurrentAxes[a] = "None"

\* C3 (no spurious stop under refresh): the watchdog sends a stop for an axis
\* (the call is sent, has returned or has raised) only when the axis's last
\* start command returned more than movement_timeout before the tick's reading
\* of the time.
C3_NoSpuriousStop ==
    \A a \in Axes : wd.st[a] \in {"sent", "ok", "fail"} => wd.own[a]

\* C4 (per-axis timing): the watchdog never passes over an active axis whose
\* own last start command returned more than movement_timeout before the
\* tick's reading of the time, whatever was started on the other axes.
C4_PerAxisTiming == \A a \in Axes : wd.st[a] = "skip" => ~wd.own[a]

\* C5 (device calls are serialized): a device call of the UI-event thread and a
\* device call of status_update_loop are never in flight at the same time.
C5_CallsSerialized ==
    ~(ui.pc \in {"call", "wbq"} /\ bg.pc \in {"poll", "read", "stop"})

\* C6 (bounded retry): a call of ensure_connected makes no connection attempt
\* when is_connected is true and exactly one when it is false, and it returns
\* true exactly when the session is live afterwards.
C6_BoundedRetry ==
    obs.op = "ensure" =>
      /\ obs.attempts = IF is_connected(obs.before).ret THEN 0 ELSE 1
      /\ obs.ret <=> is_connected(obs.after).ret

\* C6: ensure_connected finds a closed handle, tries once and fails
C6_Witness ==
    obs.op = "ensure" /\ obs.before = "closed" /\ obs.attempts = 1 /\ ~obs.ret

\* C7 (single connection gate): every device call in flight, of a command
\* method, of key_handler or of the watchdog, was sent after ensure_connected
\* returned true in the same operation.
C7_SingleGate ==
    /\ ui.pc \in {"call", "wbq"} => ui.gate
    /\ bg.pc = "stop" => bg.gate

\* C8 (connect failure is a returned value): when connect_camera fails, alone
\* or inside ensure_connected, no exception leaves it, self.camera is what it
\* was, status_message says "Connection failed" and so does the log.
C8_ConnectFailure ==
    obs.op \in {"connect", "ensure"} /\ obs.attempts > 0 /\ ~obs.ret =>
      /\ ~obs.raised
      /\ obs.after = obs.before
      /\ out.status = "Connection failed"
      /\ \E i \in 1..Len(out.log) : out.log[i] = "Connection failed"

\* C8: reconnect fails while self.camera holds a closed handle
C8_Witness ==
    obs.op = "connect" /\ obs.before = "closed" /\ ~obs.ret /\ camera = "closed"

\* C9 (disconnect ends with no session): after disconnect, self.camera is None.
C9_DisconnectAbsent == obs.op = "disconnect" => obs.after = NoCamera

\* C10 (is_connected is a fail-closed probe): is_connected returns true only
\* for a handle whose transport is open, false when probing raises, leaves
\* self.camera as it was, makes no connection attempt and raises nothing; so
\* ensure_connected goes without an attempt only on an open handle.
C10_FailClosedProbe ==
    /\ obs.op = "is_connected" =>
          /\ obs.ret <=> obs.before = "open"
          /\ obs.after = obs.before
          /\ obs.attempts = 0
          /\ ~obs.raised
    /\ obs.op = "ensure" /\ obs.attempts = 0 =>
          obs.before = "open" /\ obs.after = obs.before

\* C10: the loop probes a handle whose _output raises and is told "not live"
C10_Witness ==
    obs.op = "is_connected" /\ obs.before = "raises" /\ ~obs.ret
      /\ camera = "raises"

\* C11 (a command error leaves the axis state untouched): a step in which a
\* command method ends in its except block changes none of current_movement,
\* current_zoom, current_focus and last_movement_time, sets status_message to
\* the error and logs it.
C11_ErrorLeavesAxes ==
    [][cmd'.result = "error" =>
         /\ UNCHANGED <<current_movement, current_zoom, current_focus,
                        last_movement_time>>
         /\ out'.status = "Error"
         /\ out'.log = <<"Error">>]_vars

\* C11: zoom_stop's device call raised while zooming in, and the axis is as it was
C11_Witness ==
    cmd.op = "zoom_stop" /\ cmd.result = "error" /\ current_zoom = "in"

\* C12 (a successful command updates only its own axis): the step in which a
\* command method's device call returns changes no axis field but the one of
\* the command's own axis (none for a command that is no motion command).
C12_OwnAxisOnly ==
    [][ui.pc = "call" /\ ui' # ui =>
         \A a \in Axes : a # AxisOf(ui.op) => CurrentAxes'[a] = CurrentAxes[a]]_vars

\* C13 (one device call per command): a command method that passed the gate
\* has made exactly one device call when it ends, and it ends with
\* status_message written and an entry appended to the log.
C13_OneDeviceCall ==
    cmd.op # "none" => cmd.calls = 1 /\ out.status # "-" /\ out.log # <<>>

\* C14 (speed adjustment bypasses the gate): a speed adjustment, asked for by
\* a button or by a key, has changed the speed by one step within its limits
\* and has made no connection attempt.
C14_SpeedBypassesGate ==
    adj.via # "none" =>
      /\ speed = [adj.before EXCEPT
                    ![adj.kind] = Adjusted(adj.before[adj.kind], adj.kind, adj.delta)]
      /\ obs.attempts = 0

\* C15 (speed bounds): pan and tilt speed lie in 0..24, zoom and focus speed
\* in 0..7, from startup on.
C15_SpeedBounds == \A k \in SpeedKinds : speed[k] \in 0..SpeedMax(k)

\* C16 (poll rate limit): the loop sends status queries only when more than
\* status_check_interval has passed since get_camera_status was last called
\* (since the construction, for the first call);
\* an iteration that starts within the interval sends no status query and
\* writes no snapshot.
C16_PollRateLimit ==
    [][/\ bg.pc # "poll" /\ bg'.pc = "poll" =>
            Now - lastPoll > status_check_interval
       /\ bg.pc = "sleep" /\ bg.wake = 0 /\ bg' # bg
            /\ Now - lastPoll <= status_check_interval =>
            bg'.pc # "poll" /\ out'.snapshot = NoSnapshot]_vars

\* C16: the interval has run out since the last poll and the queries are sent
C16_Witness ==
    bg.pc = "poll" /\ lastPoll = Now /\ last_status_check = 0 - PollHorizon

\* C17 (partial status failure): when get_power has answered and field queries
\* have failed, the snapshot published is connected, the fields whose query
\* failed hold their sentinel and the others the value read.
C17_PartialStatus ==
    replies.asked /\ replies.power # "raise" =>
      /\ out.snapshot.connected
      /\ out.snapshot.sentinel = {x \in StatusFields : replies.f[x] # "ok"}

\* C18 (disconnected poll): an iteration whose poll is due while self.camera is
\* None or is_connected is false publishes a snapshot with connected false
\* and an error description, and sends no status query.
C18_DisconnectedPoll ==
    [][bg.pc = "sleep" /\ bg.wake = 0 /\ bg' # bg /\ PollDue(Now)
         /\ ~is_connected(camera).ret =>
         /\ ~out'.snapshot.connected
         /\ out'.snapshot.kind \in {"No camera connection", "Connection lost"}
         /\ bg'.pc # "poll"]_vars

\* C18: the poll found a closed handle and published "Connection lost"
C18_Witness ==
    camera = "closed" /\ out.snapshot.kind = "Connection lost" /\ bg.pc # "poll"

\* C19 (bounded queues, FIFO eviction): whenever no thread is inside add_log or
\* check_incoming_messages, the log holds at most 100 entries and they are the
\* newest arrivals in arrival order, and the message queue holds at most 10
\* entries in arrival order.
C19_BoundedFifo ==
    (\A t \in Threads : writers[t].pc = "idle") =>
      /\ Len(log_messages) <= LogCapacity
      /\ log_messages = Newest([i \in 1..arrivals.log |-> i], LogCapacity)
      /\ Len(incoming_messages) <= max_messages
      /\ \A i \in 1..(Len(incoming_messages) - 1) :
           incoming_messages[i + 1] = incoming_messages[i] + 1

\* C20 (explicit stop on an idle axis): when the device call of stop, zoom_stop
\* or focus_stop returns while the command's own axis is None, no axis field
\* and no timestamp changes, and no error is published.
C20_IdleStopNoOp ==
    [][(ui.pc = "call" /\ ui.op \in StopCommands /\ ui' # ui
          /\ CurrentAxes[AxisOf(ui.op)] = "None") =>
         /\ CurrentAxes' = CurrentAxes
         /\ last_movement_time' = last_movement_time
         /\ out'.status # "Error"]_vars

\* C21 (shutdown ordering): when the process has exited, and the session is
\* released with it, the status thread has seen self.running false and has
\* returned from its loop.
C21_ShutdownOrdering == process.main = "exited" => process.thread = "returned"

\* C22 (no failure escapes): no exception leaves a callback of the UI-event
\* thread or status_update_loop, none leaves a connection operation; a
\* command whose device call raised ends with the error in status_message
\* and in the log, and after a watchdog stop that raised the loop goes on.
C22_NoEscape ==
    /\ ui.pc # "raised"
    /\ bg.pc # "raised"
    /\ ~obs.raised
    /\ cmd.result = "error" => out.status = "Error" /\ out.log = <<"Error">>
    /\ (\E a \in Axes : wd.st[a] = "fail") => bg.pc \in {"sleep", "stop"}

\* C22: the watchdog's stop call was made on self.camera = None, raised, and
\* the loop has gone to sleep
C22_Witness ==
    camera = NoCamera /\ wd.st["movement"] = "fail" /\ bg.pc = "sleep"

\* a step of status_update_loop that ends the part of an iteration before
\* check_incoming_messages: the iteration's start when no poll's queries are
\* sent, or the return of the poll's queries
C23_TickStep ==
    \/ bg.pc = "sleep" /\ bg.wake = 0 /\ bg' # bg /\ bg'.pc # "poll"
    \/ bg.pc = "poll" /\ bg'.pc # "poll"

\* C23 (drain and watchdog on every tick): every iteration of the loop,
\* with or without a status poll, goes on to check_incoming_messages (the raw
\* read is sent) and to check_movement_timeout (its tests are made, or its
\* stop call is sent); a raw read that returned bytes is logged.
C23_EveryTickDrains ==
    [][/\ C23_TickStep => bg'.pc \in {"read", "stop"} \/ wd'.done
       /\ (bg.pc = "read" /\ bg'.pc # "read") => bg'.pc = "stop" \/ wd'.done]_vars

\* C24 (one open session): no handle that the program opened earlier is open
\* next to the one self.camera holds.
C24_OneOpenSession == ~unclosed

\* the values get_camera_status can return: each a whole snapshot
C25_Snapshots ==
    {StatusOffline(c) : c \in {NoCamera, "closed", "noout"}}
        \cup {StatusOnline(power, f) : power \in PowerReplies, f \in FieldCases}

\* C25 (atomic publication): self._cached_status changes only by being bound
\* to the dict the poll has just built, whose value is a whole snapshot and
\* stays what the poll built; and the dict that self._cached_status refers to
\* is never written while it is referred to.
C25_AtomicPublication ==
    [][/\ cached_status' # cached_status =>
            /\ status # "None"
            /\ cached_status' = status
            /\ objects'[status] = objects[status]
            /\ objects'[status] \in C25_Snapshots
       /\ (cached_status # "None" /\ cached_status' = cached_status) =>
            objects'[cached_status] = objects[cached_status]]_vars

\* C25: a poll has built a new dict, with another value, while the dict of
\* the poll before it is still the published one
C25_Witness ==
    /\ cached_status # "None"
    /\ status # "None"
    /\ objects[status] # objects[cached_status]
    /\ objects[cached_status].connected

\* a step of status_update_loop: it leaves its sleep, or a device call of
\* its poll, drain or watchdog check returns
C26_BgStep ==
    \/ bg'.pc # bg.pc
    \/ bg'.wake > bg.wake
    \/ bg'.axis # bg.axis

\* C26 (the background cycle leaves settings and session alone): a step of
\* status_update_loop changes none of the speeds, not the connection string
\* and not the session held, makes no connection attempt and leaves no
\* handle behind.
C26_BackgroundReadOnly ==
    [][C26_BgStep =>
         /\ speed' = speed
         /\ connection_string' = connection_string
         /\ camera' = camera
         /\ unclosed' = unclosed
         /\ obs'.attempts = 0
         /\ obs'.op \in {"none", "is_connected"}]_vars

\* C26: the loop has probed a handle whose output is closed, found it dead and
\* gone through its watchdog check, and the handle is still the one held,
\* with the connection string the user typed
C26_Witness ==
    /\ obs.op = "is_connected" /\ obs.before = "closed" /\ ~obs.ret
    /\ camera = "closed" /\ wd.done
    /\ connection_string # DefaultTarget

\* the watchdog's stop call for axis bg.axis returns
C27_StopReturns ==
    bg.pc = "stop" /\ (bg'.pc # "stop" \/ bg'.axis # bg.axis)

\* C27 (no orphaned motion): when the watchdog's stop call returns, no call
\* of the UI-event thread for that axis is under way, and the last command
\* the camera was sent for the axis is a start, the axis's field is not None
\* after the step.
C27_NoOrphanedMotion ==
    [][(/\ C27_StopReturns
        /\ device = "start"
        /\ ui.pc = "call" => bg.axis \notin AxesOf(ui.op))
       => CurrentAxes'[bg.axis] # "None"]_vars

\* C28 (no stop for a freshly refreshed axis): in the step that sends a
\* watchdog stop for an axis, the axis's last start command returned more
\* than movement_timeout ago.
C28_StopOnlyAfterSilence ==
    \A a \in Axes :
        wd.st[a] = "sent" =>
            /\ lastStart[a] # NoAxisTime
            /\ (Now - lastStart[a]) > movement_timeout

\* C29 (one connection attempt per UI event): no operation makes more than
\* one connection attempt, and the command method that key_handler dispatches
\* to makes none when key_handler's own gate has made one.
C29_OneAttemptPerEvent ==
    [][/\ obs'.attempts <= 1
       /\ (ui.pc \in {"key", "wbq"} /\ ui' # ui) => ui.tries + obs'.attempts <= 1]_vars

\* C30 (the connected flag is the liveness at poll time): a published
\* snapshot says connected exactly when is_connected was true at the poll
\* (so that the status queries were made), whatever the queries returned.
C30_FlagIsLiveness ==
    out.snapshot # NoSnapshot => (out.snapshot.connected <=> replies.asked)

\* C31 (no entry lost to a race): a step that removes entries from the log or
\* from the message queue removes only entries older than every entry it
\* keeps; none that is newer than a kept one is discarded.
C31_NoLostEntry ==
    [][LET Entries(q) == {q[k] : k \in 1..Len(q)}
           OldestOnly(q, r) ==
               \A i \in Entries(q) \ Entries(r) : \A j \in Entries(r) : i < j
       IN /\ OldestOnly(log_messages, log_messages')
          /\ OldestOnly(incoming_messages, incoming_messages')]_vars

====
